---- MODULE Spec2Model ----
(***************************************************************************)
(* Model of the Mini OS File Manager backend (server.js): the root         *)
(* resolver run at startup, the path sanitizer resolveSafePath, and the    *)
(* /api/read and /api/save handlers over a small POSIX file system.        *)
(*                                                                         *)
(* Paths are sequences of one-character strings; the path module is the    *)
(* POSIX flavour (only "/" separates segments, "\\" is an ordinary         *)
(* character of a name).  File contents are sequences of code points,      *)
(* stored on disk as their UTF-8 bytes.                                    *)
(***************************************************************************)
EXTENDS Integers, Sequences, FiniteSets, TLC

VARIABLES
    env,        \* process.env.FLMNGR_ROOT_DIR (<<>> when unset or empty)
    isRoot,     \* process.getuid() === 0
    sys,        \* outcome of the probing system calls, per candidate directory
    dirs,       \* the directories that exist
    files,      \* the regular files that exist: path -> [bytes, locked]
    pc,         \* position of the startup script
    filesDir,   \* let filesDir (<<>> while unassigned)
    assigned,   \* number of assignments made to filesDir
    exitCode,   \* process.exitCode
    clientPath, \* the path string the client sends in its requests
    req,        \* the requests, per connection
    lastSave,   \* the latest completed save: [ok, path, content]
    dirFiles,   \* the dirFiles option given to bindFlmngr (<<>> before)
    log,        \* the results of ensureDirectoryUsable, in call order
    port,       \* what binding port 3000 answers: "" or an error code
    console,    \* the lines written to stdout and stderr from app.listen on
    tree,       \* the entries below the root the tree lister walks
    lister,     \* the listing request: [root, start, maxDepth, hide]
    listing,    \* the answer to it: [done, nodes]
    page,       \* which controls index.html holds
    disabled,   \* the disabled property of each control
    menuVisible, \* the context menu is displayed
    selectedItem, \* let selectedItem (Null for null)
    itemCache,  \* const itemCache = new Map()
    folder,     \* the items the file manager shows
    fetches,    \* the /api/read fetches of openEditorWindow awaiting an answer
    windows,    \* the windows created, in order: [kind, title, filePath, editorView, attached]
    views,      \* the EditorView instances created: [parent, doc, destroyed]
    lastPost,   \* the latest POST /api/save: [window, path, content]
    clicked     \* the latest onItemClick: [item, returned, call, path]

vars == <<env, isRoot, sys, dirs, files, pc, filesDir, assigned, exitCode,
          clientPath, req, lastSave, dirFiles, log, port, console,
          tree, lister, listing,
          page, disabled, menuVisible, selectedItem, itemCache, folder,
          fetches, windows, views, lastPost, clicked>>

serverVars == <<env, isRoot, sys, dirs, files, pc, filesDir, assigned, exitCode,
                clientPath, req, lastSave, dirFiles, log, port, console>>

listerVars == <<tree, lister, listing>>

uiVars == <<page, disabled, menuVisible, selectedItem, itemCache, folder,
            fetches, windows, views, lastPost, clicked>>

(***************************************************************************)
(* Bounds                                                                  *)
(***************************************************************************)
MaxPathLen == 3

(***************************************************************************)
(* Strings                                                                 *)
(***************************************************************************)
Undefined == <<>>

RECURSIVE Concat(_)
Concat(ss) == IF ss = <<>> THEN <<>> ELSE Head(ss) \o Concat(Tail(ss))

SeqsUpTo(S, n) == UNION {[1..k -> S] : k \in 0..n}

\* String.prototype.startsWith
StartsWith(s, prefix) ==
    /\ Len(prefix) <= Len(s)
    /\ SubSeq(s, 1, Len(prefix)) = prefix

\* s.replace(/^([/\\])+/, '')
RECURSIVE StripLeadingSeparators(_)
StripLeadingSeparators(s) ==
    IF s # <<>> /\ Head(s) \in {"/", "\\"}
    THEN StripLeadingSeparators(Tail(s))
    ELSE s

(***************************************************************************)
(* path (POSIX)                                                            *)
(***************************************************************************)
RECURSIVE SplitFrom(_, _, _)
SplitFrom(p, i, cur) ==
    IF i > Len(p) THEN <<cur>>
    ELSE IF p[i] = "/" THEN <<cur>> \o SplitFrom(p, i + 1, <<>>)
    ELSE SplitFrom(p, i + 1, Append(cur, p[i]))

Segments(p) == SplitFrom(p, 1, <<>>)

RECURSIVE JoinSegments(_)
JoinSegments(segs) ==
    IF segs = <<>> THEN <<>>
    ELSE IF Len(segs) = 1 THEN Head(segs)
    ELSE Head(segs) \o <<"/">> \o JoinSegments(Tail(segs))

DotDot == <<".", ".">>
Dot == <<".">>

\* normalizeString(path, allowAboveRoot, '/', isPosixPathSeparator)
RECURSIVE NormalizeSegments(_, _, _)
NormalizeSegments(segs, res, allowAboveRoot) ==
    IF segs = <<>> THEN res
    ELSE LET s == Head(segs)
             rest == Tail(segs)
         IN IF s = <<>> \/ s = Dot
            THEN NormalizeSegments(rest, res, allowAboveRoot)
            ELSE IF s = DotDot
            THEN IF res # <<>> /\ res[Len(res)] # DotDot
                 THEN NormalizeSegments(rest, SubSeq(res, 1, Len(res) - 1), allowAboveRoot)
                 ELSE IF allowAboveRoot
                 THEN NormalizeSegments(rest, Append(res, DotDot), allowAboveRoot)
                 ELSE NormalizeSegments(rest, res, allowAboveRoot)
            ELSE NormalizeSegments(rest, Append(res, s), allowAboveRoot)

normalizeString(p, allowAboveRoot) ==
    JoinSegments(NormalizeSegments(Segments(p), <<>>, allowAboveRoot))

IsAbsolute(p) == p # <<>> /\ Head(p) = "/"

\* path.normalize
PathNormalize(p) ==
    IF p = <<>> THEN Dot
    ELSE LET isAbsolute == IsAbsolute(p)
             trailingSeparator == p[Len(p)] = "/"
             n == normalizeString(p, ~isAbsolute)
         IN IF n = <<>>
            THEN IF isAbsolute THEN <<"/">>
                 ELSE IF trailingSeparator THEN <<".", "/">> ELSE Dot
            ELSE LET t == IF trailingSeparator THEN Append(n, "/") ELSE n
                 IN IF isAbsolute THEN <<"/">> \o t ELSE t

\* process.cwd()
Cwd == <<"/", "a">>

\* path.resolve(...args): right to left until an absolute path is built
RECURSIVE ResolveAcc(_, _)
ResolveAcc(args, acc) ==
    IF IsAbsolute(acc) THEN acc
    ELSE IF args = <<>> THEN Cwd \o <<"/">> \o acc
    ELSE LET a == args[Len(args)]
             front == SubSeq(args, 1, Len(args) - 1)
         IN IF a = <<>> THEN ResolveAcc(front, acc)
            ELSE ResolveAcc(front, a \o <<"/">> \o acc)

PathResolve(args) ==
    LET n == normalizeString(ResolveAcc(args, <<>>), FALSE)
    IN <<"/">> \o n

\* path.join(a, b)
PathJoin(a, b) ==
    IF a = <<>> /\ b = <<>> THEN Dot
    ELSE IF a = <<>> THEN PathNormalize(b)
    ELSE IF b = <<>> THEN PathNormalize(a)
    ELSE PathNormalize(a \o <<"/">> \o b)

\* path.dirname of an absolute normalized path
PathDirname(p) ==
    LET segs == NormalizeSegments(Segments(p), <<>>, FALSE)
    IN IF Len(segs) <= 1 THEN <<"/">>
       ELSE <<"/">> \o JoinSegments(SubSeq(segs, 1, Len(segs) - 1))

(***************************************************************************)
(* Text encoding: fs.writeFile(..., 'utf8') and fs.readFile(..., 'utf8')   *)
(***************************************************************************)
ReplacementChar == 65533

Utf8EncodeOne(cp) ==
    IF cp < 128 THEN <<cp>>
    ELSE IF cp < 2048 THEN <<192 + (cp \div 64), 128 + (cp % 64)>>
    ELSE <<224 + (cp \div 4096), 128 + ((cp \div 64) % 64), 128 + (cp % 64)>>

RECURSIVE Utf8Encode(_)
Utf8Encode(text) ==
    IF text = <<>> THEN <<>>
    ELSE Utf8EncodeOne(Head(text)) \o Utf8Encode(Tail(text))

IsContinuation(b) == b >= 128 /\ b < 192

\* the file read as 'latin1': one character per byte
RECURSIVE Latin1Decode(_)
Latin1Decode(bytes) ==
    IF bytes = <<>> THEN <<>> ELSE <<Head(bytes)>> \o Latin1Decode(Tail(bytes))

RECURSIVE Utf8Decode(_)
Utf8Decode(bytes) ==
    IF bytes = <<>> THEN <<>>
    ELSE LET b == Head(bytes)
             n == Len(bytes)
         IN IF b < 128 THEN <<b>> \o Utf8Decode(Tail(bytes))
            ELSE IF b >= 194 /\ b < 224 /\ n >= 2 /\ IsContinuation(bytes[2])
            THEN <<(b - 192) * 64 + (bytes[2] - 128)>>
                 \o Utf8Decode(SubSeq(bytes, 3, n))
            ELSE IF b >= 224 /\ b < 240 /\ n >= 3
                    /\ IsContinuation(bytes[2]) /\ IsContinuation(bytes[3])
            THEN <<(b - 224) * 4096 + (bytes[2] - 128) * 64 + (bytes[3] - 128)>>
                 \o Utf8Decode(SubSeq(bytes, 4, n))
            ELSE <<ReplacementChar>> \o Utf8Decode(Tail(bytes))

(***************************************************************************)
(* The machine the server runs on                                          *)
(***************************************************************************)
\* __dirname of server.js, os.homedir() and the value operators set in
\* FLMNGR_ROOT_DIR
__dirname == <<"/", "a">>
homeDir == <<"/", "h">>
ConfiguredEnv == <<"/", "r", "/">>

\* const DEFAULT_FILES_DIR = path.join(__dirname, 'files'), 'files' spelled "r"
DEFAULT_FILES_DIR == PathJoin(__dirname, <<"r">>)

ErrorCodes == {"EACCES", "EPERM", "EIO"}

\* names used below a candidate directory: a readable file, a file the
\* process may neither read nor write, and two subdirectories
FileName == <<"r">>
LockedName == <<"r", "s">>
SubdirNames == <<<<"s">>, <<"t">>>>

Child(dir, name) == PathResolve(<<dir, name>>)

\* a file next to dir whose full name starts with the name of dir
SiblingOf(dir) == dir \o <<"s">>

configuredDirOf(e) == IF e # Undefined THEN PathResolve(<<e>>) ELSE Undefined

CandidateDirs ==
    {configuredDirOf(ConfiguredEnv), DEFAULT_FILES_DIR, homeDir, <<"/">>}

\* What a directory is like before startup: whether it exists, what
\* mkdirSync, accessSync and readdirSync answer for it, and what accessSync
\* answers for each of its subdirectories.
Profile(exists, mkdir, access, readdir, kids) ==
    [exists |-> exists, mkdir |-> mkdir, access |-> access,
     readdir |-> readdir, kids |-> kids]

Plain == Profile(TRUE, "ok", "ok", "ok", <<>>)
Fresh == Profile(FALSE, "ok", "ok", "ok", <<>>)
NoMkdir == Profile(FALSE, "EACCES", "ok", "ok", <<>>)
NoAccess == Profile(TRUE, "ok", "EACCES", "ok", <<>>)

KidLists ==
    {<<>>, <<"ok">>, <<"EACCES">>, <<"EPERM">>, <<"EIO">>, <<"EIO", "EACCES">>}

Profiles ==
    {NoMkdir, Fresh, Profile(FALSE, "ok", "EACCES", "ok", <<>>), NoAccess}
    \cup {Profile(TRUE, "ok", "ok", c, <<>>) : c \in ErrorCodes}
    \cup {Profile(TRUE, "ok", "ok", "ok", k) : k \in KidLists}

\* the file system a choice of profiles describes
DirsOf(prof) ==
    LET fixed == {<<d, "ok">> : d \in {<<"/">>, __dirname} \ DOMAIN prof}
        cands == {<<d, prof[d].access>> : d \in {c \in DOMAIN prof : prof[c].exists}}
        kept == UNION {{<<Child(d, SubdirNames[k]), prof[d].kids[k]>> :
                            k \in 1..Len(prof[d].kids)} :
                        d \in {c \in DOMAIN prof : prof[c].exists}}
        all == fixed \cup cands \cup kept
    IN [p \in {e[1] : e \in all} |-> (CHOOSE e \in all : e[1] = p)[2]]

FilesOf(prof) ==
    LET roots == {d \in DOMAIN prof : prof[d].exists /\ d # <<"/">> /\ d # homeDir}
        inside == {<<Child(d, FileName), [bytes |-> <<97>>, locked |-> FALSE]>> : d \in roots}
                  \cup {<<Child(d, LockedName), [bytes |-> <<97>>, locked |-> TRUE]>> : d \in roots}
        beside == {<<SiblingOf(d), [bytes |-> <<47>>, locked |-> FALSE]>> :
                      d \in DOMAIN prof \ {<<"/">>, homeDir}}
        all == inside \cup beside
    IN [p \in {e[1] : e \in all} |-> (CHOOSE e \in all : e[1] = p)[2]]

SysOf(prof) ==
    [d \in DOMAIN prof |->
        [exists |-> prof[d].exists, mkdir |-> prof[d].mkdir,
         access |-> prof[d].access, readdir |-> prof[d].readdir]]

(***************************************************************************)
(* fs                                                                      *)
(***************************************************************************)
Permission(code) == code = "EACCES" \/ code = "EPERM"

\* fs.mkdirSync(dir, { recursive: true }): the error code, "ok" on success
MkdirCode(dir, D, F) ==
    IF dir \in DOMAIN D THEN "ok"
    ELSE IF dir \in DOMAIN F THEN "EEXIST"
    ELSE sys[dir].mkdir

MkdirSync(dir, D, F) ==
    IF dir \notin DOMAIN D /\ MkdirCode(dir, D, F) = "ok"
    THEN [p \in DOMAIN D \cup {dir} |-> IF p = dir THEN sys[dir].access ELSE D[p]]
    ELSE D

\* fs.accessSync(p, mode) on a directory: the error code, "ok" on success
AccessCode(p, D) == IF p \in DOMAIN D THEN D[p] ELSE "ENOENT"

\* fs.readdirSync(dir, { withFileTypes: true })
ReaddirCode(dir) == IF dir \in DOMAIN sys THEN sys[dir].readdir ELSE "ok"

Entries(dir, D, F) == {p \in DOMAIN D \cup DOMAIN F : p # dir /\ PathDirname(p) = dir}

IsDirectory(p, D) == p \in DOMAIN D

\* fs.readFile(p, 'utf8', cb): what the callback receives
ReadFile(p, D, F) ==
    IF p \in DOMAIN D THEN [err |-> "EISDIR", data |-> <<>>]
    ELSE IF p \notin DOMAIN F THEN [err |-> "ENOENT", data |-> <<>>]
    ELSE IF F[p].locked THEN [err |-> "EACCES", data |-> <<>>]
    ELSE [err |-> "", data |-> Utf8Decode(F[p].bytes)]

\* fs.writeFile(p, content, 'utf8', cb): the error and the files afterwards
WriteFile(p, content, D, F) ==
    IF p \in DOMAIN D THEN [err |-> "EISDIR", files |-> F]
    ELSE IF p \in DOMAIN F
    THEN IF F[p].locked THEN [err |-> "EACCES", files |-> F]
         ELSE [err |-> "",
               files |-> [F EXCEPT ![p] = [bytes |-> Utf8Encode(content), locked |-> FALSE]]]
    ELSE IF PathDirname(p) \notin DOMAIN D THEN [err |-> "ENOENT", files |-> F]
    ELSE IF D[PathDirname(p)] # "ok" THEN [err |-> "EACCES", files |-> F]
    ELSE [err |-> "",
          files |-> [q \in DOMAIN F \cup {p} |->
                        IF q = p THEN [bytes |-> Utf8Encode(content), locked |-> FALSE]
                        ELSE F[q]]]

(***************************************************************************)
(* Root resolver                                                           *)
(***************************************************************************)
\* the loop over the entries: some subdirectory answers EACCES or EPERM
SubdirDenied(dir, D, F) ==
    \E e \in Entries(dir, D, F) :
        IsDirectory(e, D) /\ Permission(AccessCode(e, D))

ensureDirectoryUsable(dir, D, F) ==
    LET D1 == MkdirSync(dir, D, F)
    IN IF MkdirCode(dir, D, F) # "ok"
       THEN [ok |-> FALSE, reason |-> "mkdir", dirs |-> D]
       ELSE IF AccessCode(dir, D1) # "ok"
       THEN [ok |-> FALSE, reason |-> "access", dirs |-> D1]
       ELSE IF ReaddirCode(dir) # "ok"
       THEN IF Permission(ReaddirCode(dir))
            THEN [ok |-> FALSE, reason |-> "inspect", dirs |-> D1]
            ELSE [ok |-> TRUE, reason |-> "", dirs |-> D1]
       ELSE IF SubdirDenied(dir, D1, F)
       THEN [ok |-> FALSE, reason |-> "subdir", dirs |-> D1]
       ELSE [ok |-> TRUE, reason |-> "", dirs |-> D1]

candidatesOf(e) ==
    SelectSeq(<<[dir |-> configuredDirOf(e), source |-> "FLMNGR_ROOT_DIR"],
                [dir |-> DEFAULT_FILES_DIR, source |-> "application default"]>>,
              LAMBDA c : c.dir # Undefined)

\* the loop returning its candidate whatever ensureDirectoryUsable answered
tryCandidatesUnchecked(cands, D, F, L) ==
    IF cands = <<>>
    THEN [threw |-> TRUE, dir |-> Undefined, dirs |-> D, log |-> L]
    ELSE LET result == ensureDirectoryUsable(Head(cands).dir, D, F)
             L1 == Append(L, [dir |-> Head(cands).dir, source |-> Head(cands).source,
                              ok |-> result.ok, reason |-> result.reason])
         IN [threw |-> FALSE, dir |-> Head(cands).dir, dirs |-> result.dirs, log |-> L1]

RECURSIVE tryCandidates(_, _, _, _)
tryCandidates(cands, D, F, L) ==
    IF cands = <<>>
    THEN [threw |-> TRUE, dir |-> Undefined, dirs |-> D, log |-> L]
    ELSE LET result == ensureDirectoryUsable(Head(cands).dir, D, F)
             L1 == Append(L, [dir |-> Head(cands).dir, source |-> Head(cands).source,
                              ok |-> result.ok, reason |-> result.reason])
         IN IF result.ok
            THEN [threw |-> FALSE, dir |-> Head(cands).dir, dirs |-> result.dirs, log |-> L1]
            ELSE tryCandidates(Tail(cands), result.dirs, F, L1)

resolveFilesDirectory(e, D, F) == tryCandidates(candidatesOf(e), D, F, <<>>)

(***************************************************************************)
(* Path sanitizer                                                          *)
(***************************************************************************)
resolveSafePath(baseDir, requestedPath) ==
    LET safeBase == PathResolve(<<baseDir>>)
        sanitized == StripLeadingSeparators(PathNormalize(requestedPath))
        safePath == PathResolve(<<safeBase, sanitized>>)
    IN [safeBase |-> safeBase, safePath |-> safePath]

(***************************************************************************)
(* Requests                                                                *)
(***************************************************************************)
\* the pieces request paths are made of
Pieces == {<<"/">>, <<"\\">>, DotDot, Dot, <<"r">>, <<"r", "s">>}

RequestPaths == {Concat(ps) : ps \in SeqsUpTo(Pieces, MaxPathLen)}

\* the shape in which the path parameter arrives: absent, one string, or a
\* list (a repeated query parameter, a JSON array)
Shapes == {"missing", "string", "list"}

\* the texts saved: empty, "/", a two-byte character, and both together
Contents == {<<>>, <<47>>, <<233>>, <<233, 47>>}

Idle ==
    [stage |-> "idle", kind |-> "", shape |-> "", path |-> <<>>, content |-> <<>>,
     resolved |-> FALSE, safeBase |-> <<>>, safePath |-> <<>>,
     fsCalls |-> 0, fsErr |-> "", responses |-> 0, status |-> 0,
     msg |-> "", text |-> <<>>, expect |-> FALSE, expected |-> <<>>, fresh |-> FALSE]

Arrived(kind, shape, content) ==
    [Idle EXCEPT !.kind = kind, !.shape = shape,
                 !.path = IF shape = "missing" THEN <<>> ELSE clientPath,
                 !.content = content]

\* res.status(status).send(msg) / res.send(text)
Send(r, status, msg, text) ==
    [r EXCEPT !.stage = "done", !.status = status, !.msg = msg, !.text = text,
              !.responses = @ + 1, !.fresh = TRUE]

\* the parameter tested with `if (!filePath)`: the empty string counts as
\* missing and a list reaches path.normalize, which throws
SanitizeFalsy(r) ==
    IF r.shape = "missing" \/ (r.shape = "string" /\ r.path = <<>>)
    THEN Send(r, 400, "Bad Request: Missing path parameter", <<>>)
    ELSE IF r.shape = "list"
    THEN Send([r EXCEPT !.resolved = TRUE], 500, "Internal Server Error", <<>>)
    ELSE LET s == resolveSafePath(filesDir, r.path)
             r1 == [r EXCEPT !.resolved = TRUE, !.safeBase = s.safeBase,
                             !.safePath = s.safePath]
         IN IF ~StartsWith(s.safePath, s.safeBase)
            THEN Send(r1, 403, "Forbidden: Access Denied", <<>>)
            ELSE [r1 EXCEPT !.stage = "fs", !.fsCalls = @ + 1]

\* the part of both handlers before the file system call
Sanitize(r) ==
    IF r.shape # "string"
    THEN Send(r, 400, "Bad Request: Missing path parameter", <<>>)
    ELSE LET s == resolveSafePath(filesDir, r.path)
             r1 == [r EXCEPT !.resolved = TRUE, !.safeBase = s.safeBase,
                             !.safePath = s.safePath]
         IN IF ~StartsWith(s.safePath, s.safeBase)
            THEN Send(r1, 403, "Forbidden: Access Denied", <<>>)
            ELSE [r1 EXCEPT !.stage = "fs", !.fsCalls = @ + 1]

Free(c) == req[c].stage \in {"idle", "done"}

(***************************************************************************)
(* Startup script                                                          *)
(***************************************************************************)
\* let filesDir; try { filesDir = resolveFilesDirectory(); } catch ...;
\* bindFlmngr({ dirFiles: filesDir }); the routes; app.listen(port, ...)
Startup ==
    /\ pc = "start"
    /\ LET r == resolveFilesDirectory(env, dirs, files)
       IN /\ dirs' = r.dirs
          /\ log' = r.log
          /\ IF r.threw
             THEN /\ exitCode' = 1
                  /\ pc' = "crashed"
                  /\ UNCHANGED <<filesDir, assigned, dirFiles>>
             ELSE /\ filesDir' = r.dir
                  /\ assigned' = assigned + 1
                  /\ dirFiles' = r.dir
                  /\ pc' = "binding"
                  /\ UNCHANGED exitCode
    /\ UNCHANGED <<env, isRoot, sys, files, clientPath, req, lastSave>>
    /\ UNCHANGED <<port, console>>
    /\ UNCHANGED <<listerVars, uiVars>>

\* what the bind of port 3000 can answer
BindOutcomes == {"", "EADDRINUSE", "EACCES"}

\* the majors of express `npm install` can resolve to
ExpressMajors == {4, 5}

ListeningLine ==
    [stream |-> "stdout", code |-> "",
     text |-> "Mini OS File Manager listening at http://localhost:3000"]

\* the handler given to app.on('error'), which writes one line and calls
\* process.exit(1)
AppOnError(code) ==
    [stream |-> "stderr", code |-> code,
     text |-> IF code = "EADDRINUSE" THEN "ERROR: Port 3000 is already in use."
              ELSE "Server startup error:"]

\* node's report of an 'error' event nobody listens to
UnhandledErrorLine(code) ==
    [stream |-> "stderr", code |-> code, text |-> "Unhandled 'error' event"]

\* the callback of app.listen
Listening ==
    /\ pc = "binding"
    /\ port = ""
    /\ pc' = "listening"
    /\ console' = Append(console, ListeningLine)
    /\ UNCHANGED <<env, isRoot, sys, dirs, files, filesDir, assigned, exitCode,
                   clientPath, req, lastSave, dirFiles, log, port>>
    /\ UNCHANGED <<listerVars, uiVars>>

\* The bind fails: the http.Server made by app.listen emits 'error'.  The
\* handler of lines 218-225 listens on the express app, which never emits
\* that event.  express 4 leaves the server without an 'error' listener, so
\* node reports the unhandled event and exits with code 1; express 5 passes
\* the error to the callback of app.listen, which prints its line, and the
\* process ends with nothing left to wait for.
ListenError ==
    /\ pc = "binding"
    /\ port # ""
    /\ pc' = "exited"
    /\ \E major \in ExpressMajors :
          IF major = 4
          THEN /\ console' = Append(console, UnhandledErrorLine(port))
               /\ exitCode' = 1
          ELSE /\ console' = Append(console, ListeningLine)
               /\ exitCode' = exitCode
    /\ UNCHANGED <<env, isRoot, sys, dirs, files, filesDir, assigned,
                   clientPath, req, lastSave, dirFiles, log, port>>
    /\ UNCHANGED <<listerVars, uiVars>>

(***************************************************************************)
(* GET /api/read                                                           *)
(***************************************************************************)
ApiRead(c, shape) ==
    /\ pc = "listening"
    /\ Free(c)
    /\ LET a == Arrived("read", shape, <<>>)
           r == [a EXCEPT !.expect = lastSave.ok /\ shape = "string"
                                      /\ lastSave.path = a.path,
                          !.expected = lastSave.content]
       IN req' = [req EXCEPT ![c] = Sanitize(r)]
    /\ UNCHANGED <<env, isRoot, sys, dirs, files, pc, filesDir, assigned, exitCode,
                   clientPath, lastSave, dirFiles, log>>
    /\ UNCHANGED <<port, console>>
    /\ UNCHANGED <<listerVars, uiVars>>

\* the callback answering a failed read with an empty 200
ReadFileCallbackSwallow(c) ==
    /\ req[c].stage = "fs"
    /\ req[c].kind = "read"
    /\ LET out == ReadFile(req[c].safePath, dirs, files)
           r == [req[c] EXCEPT !.fsErr = out.err]
       IN req' = [req EXCEPT ![c] = Send(r, 200, "", out.data)]
    /\ UNCHANGED <<env, isRoot, sys, dirs, files, pc, filesDir, assigned, exitCode,
                   clientPath, lastSave, dirFiles, log>>
    /\ UNCHANGED <<port, console>>
    /\ UNCHANGED <<listerVars, uiVars>>

ReadFileCallback(c) ==
    /\ req[c].stage = "fs"
    /\ req[c].kind = "read"
    /\ LET out == ReadFile(req[c].safePath, dirs, files)
           r == [req[c] EXCEPT !.fsErr = out.err]
       IN req' = [req EXCEPT ![c] =
                    IF out.err # "" THEN Send(r, 500, "Error reading file", <<>>)
                    ELSE Send(r, 200, "", out.data)]
    /\ UNCHANGED <<env, isRoot, sys, dirs, files, pc, filesDir, assigned, exitCode,
                   clientPath, lastSave, dirFiles, log>>
    /\ UNCHANGED <<port, console>>
    /\ UNCHANGED <<listerVars, uiVars>>

(***************************************************************************)
(* POST /api/save                                                          *)
(***************************************************************************)
\* the handler keeping the resolved base in filesDir
ApiSaveRebase(c, shape, content) ==
    /\ pc = "listening"
    /\ Free(c)
    /\ LET r == Sanitize(Arrived("save", shape, content))
       IN /\ req' = [req EXCEPT ![c] = r]
          /\ filesDir' = IF r.resolved THEN PathDirname(r.safePath) ELSE filesDir
          /\ assigned' = IF r.resolved THEN assigned + 1 ELSE assigned
    /\ UNCHANGED <<env, isRoot, sys, dirs, files, pc, exitCode,
                   clientPath, lastSave, dirFiles, log>>
    /\ UNCHANGED <<port, console>>
    /\ UNCHANGED <<listerVars, uiVars>>

\* the handler calling fs.writeFile before it tests the resolved path
ApiSaveWriteFirst(c, shape, content) ==
    /\ pc = "listening"
    /\ Free(c)
    /\ LET r == Sanitize(Arrived("save", shape, content))
       IN /\ req' = [req EXCEPT ![c] = r]
          /\ files' = IF r.resolved
                       THEN WriteFile(r.safePath, content, dirs, files).files
                       ELSE files
    /\ UNCHANGED <<env, isRoot, sys, dirs, pc, filesDir, assigned, exitCode,
                   clientPath, lastSave, dirFiles, log>>
    /\ UNCHANGED <<port, console>>
    /\ UNCHANGED <<listerVars, uiVars>>

ApiSave(c, shape, content) ==
    /\ pc = "listening"
    /\ Free(c)
    /\ req' = [req EXCEPT ![c] = Sanitize(Arrived("save", shape, content))]
    /\ UNCHANGED <<env, isRoot, sys, dirs, files, pc, filesDir, assigned, exitCode,
                   clientPath, lastSave, dirFiles, log>>
    /\ UNCHANGED <<port, console>>
    /\ UNCHANGED <<listerVars, uiVars>>

WriteFileCallback(c) ==
    /\ req[c].stage = "fs"
    /\ req[c].kind = "save"
    /\ LET out == WriteFile(req[c].safePath, req[c].content, dirs, files)
           r == [req[c] EXCEPT !.fsErr = out.err]
       IN /\ files' = out.files
          /\ lastSave' = IF out.err = ""
                         THEN [ok |-> TRUE, path |-> r.path, content |-> r.content]
                         ELSE [ok |-> FALSE, path |-> <<>>, content |-> <<>>]
          /\ req' = [d \in DOMAIN req |->
                       IF d = c
                       THEN IF out.err # "" THEN Send(r, 500, "Error saving file", <<>>)
                            ELSE Send(r, 200, "File saved successfully", <<>>)
                       ELSE [req[d] EXCEPT !.expect = @ /\ req[d].stage = "done",
                                           !.fresh = FALSE]]
    /\ UNCHANGED <<env, isRoot, sys, dirs, pc, filesDir, assigned, exitCode,
                   clientPath, dirFiles, log>>
    /\ UNCHANGED <<port, console>>
    /\ UNCHANGED <<listerVars, uiVars>>

(***************************************************************************)
(* fs.writeFile step by step, as requests in flight together see it        *)
(***************************************************************************)
\* what a request that is not the one acting keeps of its history when the
\* files change
Stale(r) == [r EXCEPT !.expect = @ /\ r.stage = "done", !.fresh = FALSE]

\* fs.write(fd, buffer, 0, length, null) on a descriptor at offset 0: the
\* bytes replace the start of the file and what lies beyond them stays
WriteAt0(old, bytes) ==
    IF Len(bytes) >= Len(old) THEN bytes
    ELSE bytes \o SubSeq(old, Len(bytes) + 1, Len(old))

\* fs.open(path, 'w'): the file is created, or truncated to no bytes
WriteFileOpen(c) ==
    /\ req[c].stage = "fs"
    /\ req[c].kind = "save"
    /\ LET out == WriteFile(req[c].safePath, <<>>, dirs, files)
           r == [req[c] EXCEPT !.fsErr = out.err]
       IN /\ files' = out.files
          /\ lastSave' = IF out.err = "" THEN lastSave
                         ELSE [ok |-> FALSE, path |-> <<>>, content |-> <<>>]
          /\ req' = [d \in DOMAIN req |->
                       IF d = c
                       THEN IF out.err # "" THEN Send(r, 500, "Error saving file", <<>>)
                            ELSE [r EXCEPT !.stage = "opened"]
                       ELSE Stale(req[d])]
    /\ UNCHANGED <<env, isRoot, sys, dirs, pc, filesDir, assigned, exitCode,
                   clientPath, dirFiles, log>>
    /\ UNCHANGED <<port, console>>
    /\ UNCHANGED <<listerVars, uiVars>>

\* writeAll: fs.write of the whole buffer through the open descriptor
WriteFileWrite(c) ==
    /\ req[c].stage = "opened"
    /\ LET p == req[c].safePath
       IN files' = [files EXCEPT ![p].bytes = WriteAt0(@, Utf8Encode(req[c].content))]
    /\ req' = [d \in DOMAIN req |->
                 IF d = c THEN [req[c] EXCEPT !.stage = "written"] ELSE Stale(req[d])]
    /\ UNCHANGED <<env, isRoot, sys, dirs, pc, filesDir, assigned, exitCode,
                   clientPath, lastSave, dirFiles, log>>
    /\ UNCHANGED <<port, console>>
    /\ UNCHANGED <<listerVars, uiVars>>

\* fs.close and the callback of fs.writeFile: the write has completed
WriteFileClose(c) ==
    /\ req[c].stage = "written"
    /\ lastSave' = [ok |-> TRUE, path |-> req[c].path, content |-> req[c].content]
    /\ req' = [req EXCEPT ![c] = [Send(req[c], 200, "File saved successfully", <<>>)
                                    EXCEPT !.fresh = FALSE]]
    /\ UNCHANGED <<env, isRoot, sys, dirs, files, pc, filesDir, assigned, exitCode,
                   clientPath, dirFiles, log>>
    /\ UNCHANGED <<port, console>>
    /\ UNCHANGED <<listerVars, uiVars>>

(***************************************************************************)
(* Directory tree lister (section 4.3 of the specification)                *)
(*                                                                         *)
(* The tree below the root is a function from relative paths (sequences of *)
(* names, a name being a sequence of characters) to entries: directories,  *)
(* files and symbolic links to directories, each of which may refuse the   *)
(* type check with a permission error.                                     *)
(***************************************************************************)
DepthCeiling == 20

\* the built-in cache directory name and the label of a root without basename
CacheDirName == <<".", "c">>
FallbackLabel == <<"F">>

Dir == [kind |-> "dir", target |-> <<>>, denied |-> FALSE]
File == [kind |-> "file", target |-> <<>>, denied |-> FALSE]
DeniedDir == [kind |-> "dir", target |-> <<>>, denied |-> TRUE]
Link(t) == [kind |-> "link", target |-> t, denied |-> FALSE]

Front(p) == SubSeq(p, 1, Len(p) - 1)
Last(p) == p[Len(p)]

\* fs.realpathSync of a path below the root: links followed, prefix first
RECURSIVE Canon(_, _)
Canon(T, p) ==
    IF p = <<>> THEN <<>>
    ELSE LET q == Append(Canon(T, Front(p)), Last(p))
         IN IF q \in DOMAIN T /\ T[q].kind = "link"
            THEN Canon(T, T[q].target)
            ELSE q

\* the type check of an entry: "dir", "file", "denied" or "missing"
TypeOf(T, p) ==
    LET q == Canon(T, p)
    IN IF p \in DOMAIN T /\ T[p].denied THEN "denied"
       ELSE IF q \notin DOMAIN T THEN "missing"
       ELSE IF T[q].denied THEN "denied"
       ELSE T[q].kind

\* a wildcard pattern ('*' any run of characters, '?' one character)
RECURSIVE Glob(_, _)
Glob(pat, name) ==
    IF pat = <<>> THEN name = <<>>
    ELSE IF Head(pat) = "*"
    THEN Glob(Tail(pat), name) \/ (name # <<>> /\ Glob(pat, Tail(name)))
    ELSE /\ name # <<>>
         /\ Head(pat) = "?" \/ Head(pat) = Head(name)
         /\ Glob(Tail(pat), Tail(name))

\* the caller's patterns forgotten
HiddenCacheOnly(name, pats) == name = CacheDirName

Hidden(name, pats) ==
    name = CacheDirName \/ \E pat \in pats : Glob(pat, name)

\* case-sensitive lexical order of names
CharCode ==
    [c \in {".", "F", "a", "b", "c", "d", "f", "l", "r", "x", "y"} |->
        CASE c = "." -> 46 [] c = "F" -> 70 [] c = "a" -> 97 [] c = "b" -> 98
          [] c = "c" -> 99 [] c = "d" -> 100 [] c = "f" -> 102 [] c = "l" -> 108
          [] c = "r" -> 114 [] c = "x" -> 120 [] c = "y" -> 121]

RECURSIVE NameLess(_, _)
NameLess(m, n) ==
    IF n = <<>> THEN FALSE
    ELSE IF m = <<>> THEN TRUE
    ELSE IF Head(m) = Head(n) THEN NameLess(Tail(m), Tail(n))
    ELSE CharCode[Head(m)] < CharCode[Head(n)]

RECURSIVE SortNames(_)
SortNames(S) ==
    IF S = {} THEN <<>>
    ELSE LET least == CHOOSE m \in S : \A n \in S \ {m} : NameLess(m, n)
         IN <<least>> \o SortNames(S \ {least})

\* readdir of the directory with canonical path dir
EntryNames(T, dir) == {Last(q) : q \in {e \in DOMAIN T : e # <<>> /\ Front(e) = dir}}

\* the unhidden entries of a directory that pass the type check as
\* directories, in ascending order
VisibleDirs(T, dir, pats) ==
    SortNames({n \in EntryNames(T, dir) :
                   ~Hidden(n, pats) /\ TypeOf(T, Append(dir, n)) = "dir"})

\* the label of the root level: the basename of the root directory
RootLabel(root) ==
    LET segs == NormalizeSegments(Segments(root), <<>>, FALSE)
    IN IF segs = <<>> THEN FallbackLabel ELSE Last(segs)

\* the display path of a directory below the root, root-labeled
DisplayPath(root, p) == <<"/">> \o JoinSegments(<<RootLabel(root)>> \o p)

\* the depth floored and not capped
ClampDepthFloorOnly(d) == IF d < 0 THEN 0 ELSE d

ClampDepth(d) ==
    IF d < 0 THEN 0 ELSE IF d > DepthCeiling THEN DepthCeiling ELSE d

\* the path of p below base, when p is base or lies under it
RelativeTo(base, p) ==
    LET b == NormalizeSegments(Segments(base), <<>>, FALSE)
        q == NormalizeSegments(Segments(p), <<>>, FALSE)
    IN IF Len(b) <= Len(q) /\ SubSeq(q, 1, Len(b)) = b
       THEN [ok |-> TRUE, rel |-> SubSeq(q, Len(b) + 1, Len(q))]
       ELSE [ok |-> FALSE, rel |-> <<>>]

\* the starting directory: the root's label stripped when it leads the path,
\* a remaining '..' refused, the rest resolved by the path sanitizer
StartOf(root, start) ==
    LET given == SelectSeq(Segments(start), LAMBDA g : g # <<>>)
        segs == IF given # <<>> /\ Head(given) = RootLabel(root)
                THEN Tail(given) ELSE given
        safe == resolveSafePath(root, JoinSegments(segs))
    IN IF \E i \in 1..Len(segs) : segs[i] = DotDot
       THEN [ok |-> FALSE, rel |-> <<>>]
       ELSE RelativeTo(safe.safeBase, safe.safePath)

\* the pre-order walk: p is the path the walk came by, d its depth below the
\* start, acc the nodes recorded and the canonical paths visited so far
RECURSIVE Walk(_, _, _, _, _, _, _)
RECURSIVE WalkChildren(_, _, _, _, _, _, _, _)
\* the walk without the visited set
WalkRevisiting(T, root, pats, bound, p, d, acc) ==
    LET canon == Canon(T, p)
        kids == VisibleDirs(T, canon, pats)
        node == [displayPath |-> DisplayPath(root, p), hasChildren |-> kids # <<>>]
        acc1 == [visited |-> acc.visited \cup {canon},
                 nodes |-> Append(acc.nodes, node)]
    IN IF d >= bound THEN acc1
       ELSE WalkChildren(T, root, pats, bound, p, kids, d + 1, acc1)

Walk(T, root, pats, bound, p, d, acc) ==
    LET canon == Canon(T, p)
        kids == VisibleDirs(T, canon, pats)
        node == [displayPath |-> DisplayPath(root, p), hasChildren |-> kids # <<>>]
        recorded == \E i \in 1..Len(acc.nodes) :
                        acc.nodes[i].displayPath = node.displayPath
        acc1 == [visited |-> acc.visited \cup {canon},
                 nodes |-> IF recorded THEN acc.nodes ELSE Append(acc.nodes, node)]
    IN IF canon \in acc.visited THEN acc
       ELSE IF d >= bound THEN acc1
       ELSE WalkChildren(T, root, pats, bound, p, kids, d + 1, acc1)

WalkChildren(T, root, pats, bound, p, kids, d, acc) ==
    IF kids = <<>> THEN acc
    ELSE WalkChildren(T, root, pats, bound, p, Tail(kids), d,
                      Walk(T, root, pats, bound, Append(p, Head(kids)), d, acc))

\* the listing of a request rq = [root, start, maxDepth, hide] over the tree
ListTree(T, rq) ==
    LET st == StartOf(rq.root, rq.start)
    IN IF ~st.ok \/ TypeOf(T, st.rel) # "dir" THEN <<>>
       ELSE Walk(T, rq.root, rq.hide, ClampDepth(rq.maxDepth), st.rel, 0,
                 [visited |-> {}, nodes |-> <<>>]).nodes

(***************************************************************************)
(* Frontend (public/app.js): items, extensions and the item cache          *)
(***************************************************************************)
Null == [path |-> <<>>, name |-> <<>>, isFile |-> FALSE]

\* s.split(sep)
RECURSIVE SplitOn(_, _, _, _)
SplitOn(s, sep, i, cur) ==
    IF i > Len(s) THEN <<cur>>
    ELSE IF s[i] = sep THEN <<cur>> \o SplitOn(s, sep, i + 1, <<>>)
    ELSE SplitOn(s, sep, i + 1, Append(cur, s[i]))

\* String.prototype.toLowerCase, on the letters the names are written in
LowerOf(c) ==
    CASE c = "T" -> "t" [] c = "X" -> "x" [] c = "P" -> "p" [] c = "D" -> "d"
      [] c = "F" -> "f" [] OTHER -> c

ToLowerCase(s) == [i \in 1..Len(s) |-> LowerOf(s[i])]

\* the extension kept in the letter case of the name
getFileExtensionCased(fileName) ==
    LET parts == SplitOn(fileName, ".", 1, <<>>)
    IN IF Len(parts) <= 1 THEN <<>> ELSE parts[Len(parts)]

getFileExtension(fileName) ==
    LET parts == SplitOn(fileName, ".", 1, <<>>)
    IN IF Len(parts) <= 1 THEN <<>> ELSE ToLowerCase(parts[Len(parts)])

textualExtensions ==
    {<<"t", "x", "t">>, <<"j", "s">>, <<"j", "s", "o", "n">>, <<"c", "s", "s">>,
     <<"h", "t", "m", "l">>, <<"m", "d">>, <<"x", "m", "l">>, <<"s", "v", "g">>}

pdfExtensions == {<<"p", "d", "f">>}

\* value.replace(/\\/g, '/') and one leading '/'
normalizeItemPath(value) ==
    LET slashed == [i \in 1..Len(value) |-> IF value[i] = "\\" THEN "/" ELSE value[i]]
    IN IF StartsWith(slashed, <<"/">>) THEN slashed
       ELSE <<"/">> \o StripLeadingSeparators(slashed)

\* itemCache.set(normalized, item); itemCache.set(item.path, item)
cacheItem(cache, item) ==
    IF item = Null THEN cache
    ELSE [k \in DOMAIN cache \cup {normalizeItemPath(item.path), item.path} |-> 
             IF k \in {normalizeItemPath(item.path), item.path} THEN item ELSE cache[k]]

canOpenInEditor(item) ==
    IF item = Null \/ ~item.isFile THEN FALSE
    ELSE getFileExtension(item.name) \in textualExtensions

canPreviewPdf(item) ==
    IF item = Null \/ ~item.isFile THEN FALSE
    ELSE getFileExtension(item.name) \in pdfExtensions

\* extractItemFromEvent on a node whose path attribute holds rawPath (<<>>
\* for a target with no such attribute up to the body)
extractItemFromEvent(cache, rawPath) ==
    IF rawPath = <<>> THEN Null
    ELSE LET normalized == normalizeItemPath(rawPath)
             parts == SplitOn(normalized, "/", 1, <<>>)
         IN IF normalized \in DOMAIN cache THEN cache[normalized]
            ELSE [path |-> normalized, name |-> parts[Len(parts)], isFile |-> TRUE]

(***************************************************************************)
(* Frontend: the controls, the windows and their handlers                  *)
(***************************************************************************)
MaxFetches == 2
MaxWindows == 2

NoPost == [window |-> 0, path |-> <<>>, content |-> <<>>]
NoClick == [item |-> Null, returned |-> "", call |-> "", path |-> <<>>]

updateContextMenuButtons(pg, dis, sel) ==
    IF ~pg.contextMenu THEN dis
    ELSE [dis EXCEPT
            !.contextEditorButton =
                IF pg.contextEditorButton THEN ~canOpenInEditor(sel) ELSE @,
            !.contextPdfButton =
                IF pg.contextPdfButton THEN ~canPreviewPdf(sel) ELSE @]

updateToolbarButtons(pg, dis, sel) ==
    IF ~pg.editorButton \/ ~pg.pdfButton THEN dis
    ELSE IF sel = Null \/ ~sel.isFile
    THEN updateContextMenuButtons(
             pg, [dis EXCEPT !.editorButton = TRUE, !.pdfButton = TRUE], sel)
    ELSE updateContextMenuButtons(
             pg, [dis EXCEPT !.editorButton = ~canOpenInEditor(sel),
                             !.pdfButton = ~canPreviewPdf(sel)], sel)

\* hideContextMenu / showContextMenu on the visibility of the menu
hideContextMenu(pg, visible) == IF ~pg.contextMenu THEN visible ELSE FALSE
showContextMenu(pg, visible) == IF ~pg.contextMenu THEN visible ELSE TRUE

\* openEditorWindow up to its first await: the fetch of /api/read is sent
openEditorWindow(pending, filePath) == Append(pending, filePath)

\* openPdfWindow: the window is cloned from its template and appended
openPdfWindow(wins, filePath) ==
    Append(wins, [kind |-> "pdf", title |-> filePath, filePath |-> filePath,
                  editorView |-> 0, attached |-> TRUE])

CanFetch == Len(fetches) < MaxFetches
CanCreate == Len(windows) < MaxWindows

\* A click on an item of the file manager.  The press first runs the
\* pointerdown listener of the document (button 0, target outside the menu),
\* then Flmngr calls the onItemClick hook with the item.
ItemClick(item) ==
    /\ item \in folder
    /\ LET ext == getFileExtension(item.name)
           editor == item.isFile /\ ext \in textualExtensions
           pdf == item.isFile /\ ext \notin textualExtensions /\ ext \in pdfExtensions
       IN /\ editor => CanFetch
          /\ pdf => CanCreate
          /\ itemCache' = cacheItem(itemCache, item)
          /\ selectedItem' = item
          /\ disabled' = updateToolbarButtons(page, disabled, item)
          /\ menuVisible' = hideContextMenu(page, menuVisible)
          /\ fetches' = IF editor THEN openEditorWindow(fetches, item.path) ELSE fetches
          /\ windows' = IF pdf THEN openPdfWindow(windows, item.path) ELSE windows
          /\ clicked' = [item |-> item,
                         returned |-> IF editor \/ pdf THEN "false" ELSE "true",
                         call |-> IF editor THEN "openEditorWindow"
                                  ELSE IF pdf THEN "openPdfWindow" ELSE "",
                         path |-> IF editor \/ pdf THEN item.path ELSE <<>>]
    /\ UNCHANGED <<page, folder, views, lastPost>>
    /\ UNCHANGED <<serverVars, listerVars>>

\* the contextmenu listener of the file manager host; rawPath is the path
\* attribute found above the target, <<>> when there is none
ContextMenuOn(rawPath) ==
    LET item == extractItemFromEvent(itemCache, rawPath)
        sel == IF item # Null THEN item ELSE selectedItem
    IN /\ itemCache' = IF item # Null THEN cacheItem(itemCache, item) ELSE itemCache
       /\ selectedItem' = sel
       /\ disabled' = IF item # Null THEN updateToolbarButtons(page, disabled, item)
                      ELSE disabled
       /\ menuVisible' =
            IF sel = Null \/ ~sel.isFile THEN hideContextMenu(page, menuVisible)
            ELSE IF ~canOpenInEditor(sel) /\ ~canPreviewPdf(sel)
            THEN hideContextMenu(page, menuVisible)
            ELSE showContextMenu(page, menuVisible)
       /\ UNCHANGED <<page, folder, fetches, windows, views, lastPost, clicked>>
       /\ UNCHANGED <<serverVars, listerVars>>

\* the click listener of the context menu; action is the data-action of the
\* entry clicked, "" for the menu's own surface.  A disabled entry takes no
\* click.
MenuClick(action) ==
    /\ page.contextMenu
    /\ menuVisible
    /\ action = "open-editor" => (page.contextEditorButton /\ ~disabled.contextEditorButton)
    /\ action = "preview-pdf" => (page.contextPdfButton /\ ~disabled.contextPdfButton)
    /\ LET live == action # "" /\ selectedItem # Null /\ selectedItem.isFile
           editor == live /\ action = "open-editor" /\ canOpenInEditor(selectedItem)
           pdf == live /\ ~editor /\ action = "preview-pdf" /\ canPreviewPdf(selectedItem)
       IN /\ editor => CanFetch
          /\ pdf => CanCreate
          /\ fetches' = IF editor THEN openEditorWindow(fetches, selectedItem.path)
                        ELSE fetches
          /\ windows' = IF pdf THEN openPdfWindow(windows, selectedItem.path)
                        ELSE windows
    /\ menuVisible' = hideContextMenu(page, menuVisible)
    /\ UNCHANGED <<page, disabled, selectedItem, itemCache, folder, views,
                   lastPost, clicked>>
    /\ UNCHANGED <<serverVars, listerVars>>

\* the click listeners of the two toolbar buttons; a disabled button takes
\* no click.  The press runs the pointerdown listener of the document first.
ToolbarClick(button) ==
    /\ page[button]
    /\ ~disabled[button]
    /\ LET live == selectedItem # Null /\ selectedItem.isFile
           editor == live /\ button = "editorButton"
           pdf == live /\ button = "pdfButton"
       IN /\ editor => CanFetch
          /\ pdf => CanCreate
          /\ fetches' = IF editor THEN openEditorWindow(fetches, selectedItem.path)
                        ELSE fetches
          /\ windows' = IF pdf THEN openPdfWindow(windows, selectedItem.path)
                        ELSE windows
    /\ menuVisible' = hideContextMenu(page, menuVisible)
    /\ UNCHANGED <<page, disabled, selectedItem, itemCache, folder, views,
                   lastPost, clicked>>
    /\ UNCHANGED <<serverVars, listerVars>>

\* the listeners that dismiss the menu: pointerdown outside it, Escape,
\* scroll, resize
Dismiss ==
    /\ menuVisible' = hideContextMenu(page, menuVisible)
    /\ UNCHANGED <<page, disabled, selectedItem, itemCache, folder, fetches,
                   windows, views, lastPost, clicked>>
    /\ UNCHANGED <<serverVars, listerVars>>

\* the texts /api/read answers with and the user types
Docs == {<<>>, <<97>>}

RemoveAt(q, i) == SubSeq(q, 1, i - 1) \o SubSeq(q, i + 1, Len(q))

\* the rest of openEditorWindow, once the fetch of /api/read is answered: on
\* a response that is not ok the catch alerts; otherwise the template is
\* cloned, an EditorView is made with the text in the content element of the
\* clone, and the two click listeners close over filePath and editorView
ReadAnswered(i, ok, text) ==
    /\ i \in 1..Len(fetches)
    /\ fetches' = RemoveAt(fetches, i)
    /\ IF ok
       THEN /\ CanCreate
            /\ windows' = Append(windows,
                   [kind |-> "editor", title |-> fetches[i], filePath |-> fetches[i],
                    editorView |-> Len(views) + 1, attached |-> TRUE])
            /\ views' = Append(views,
                   [parent |-> Len(windows) + 1, doc |-> text, destroyed |-> FALSE])
       ELSE UNCHANGED <<windows, views>>
    /\ UNCHANGED <<page, disabled, menuVisible, selectedItem, itemCache, folder,
                   lastPost, clicked>>
    /\ UNCHANGED <<serverVars, listerVars>>

Attached(w) == w \in 1..Len(windows) /\ windows[w].attached

\* the user edits the document shown in window w
Type(w, text) ==
    /\ Attached(w)
    /\ windows[w].kind = "editor"
    /\ \E v \in 1..Len(views) :
          /\ views[v].parent = w
          /\ views[v].doc # text
          /\ views' = [views EXCEPT ![v].doc = text]
    /\ UNCHANGED <<page, disabled, menuVisible, selectedItem, itemCache, folder,
                   fetches, windows, lastPost, clicked>>
    /\ UNCHANGED <<serverVars, listerVars>>

\* one module-level variable holding the EditorView made last
EditorInstance(w) == Len(views)

\* the editorView the listeners of window w closed over
EditorViewOf(w) == windows[w].editorView

\* the click listener of the Save button of window w
SaveClick(w) ==
    /\ Attached(w)
    /\ windows[w].kind = "editor"
    /\ lastPost' = [window |-> w, path |-> windows[w].filePath,
                    content |-> views[EditorViewOf(w)].doc]
    /\ UNCHANGED <<page, disabled, menuVisible, selectedItem, itemCache, folder,
                   fetches, windows, views, clicked>>
    /\ UNCHANGED <<serverVars, listerVars>>

\* the click listener of the Close button of window w
CloseClick(w) ==
    /\ Attached(w)
    /\ views' = IF windows[w].kind = "editor"
                THEN [views EXCEPT ![EditorViewOf(w)].destroyed = TRUE]
                ELSE views
    /\ windows' = [windows EXCEPT ![w].attached = FALSE]
    /\ UNCHANGED <<page, disabled, menuVisible, selectedItem, itemCache, folder,
                   fetches, lastPost, clicked>>
    /\ UNCHANGED <<serverVars, listerVars>>

(***************************************************************************)
(* Specifications                                                          *)
(***************************************************************************)
Connections == {"c1"}

privDefault(root) == IF root THEN <<"/">> ELSE homeDir

ProfilesFor(root, configured, default, priv) ==
    [d \in CandidateDirs |->
        IF d = configuredDirOf(ConfiguredEnv) THEN configured
        ELSE IF d = DEFAULT_FILES_DIR THEN default
        ELSE IF d = privDefault(root) THEN priv
        ELSE Plain]

InitServer(e, root, prof, paths, conns) ==
    /\ port \in BindOutcomes
    /\ console = <<>>
    /\ env = e
    /\ isRoot = root
    /\ sys = SysOf(prof)
    /\ dirs = DirsOf(prof)
    /\ files = FilesOf(prof)
    /\ pc = "start"
    /\ filesDir = Undefined
    /\ assigned = 0
    /\ exitCode = 0
    /\ clientPath \in paths
    /\ req = [c \in conns |-> Idle]
    /\ lastSave = [ok |-> FALSE, path |-> <<>>, content |-> <<>>]
    /\ dirFiles = Undefined
    /\ log = <<>>

\* no listing is asked for
ListerIdle ==
    /\ tree = [p \in {<<>>} |-> Dir]
    /\ lister = [root |-> <<"/">>, start |-> <<>>, maxDepth |-> 0, hide |-> {}]
    /\ listing = [done |-> FALSE, nodes |-> <<>>]

Controls == {"editorButton", "pdfButton", "contextMenu",
             "contextEditorButton", "contextPdfButton"}

FullPage == [c \in Controls |-> TRUE]

\* no page is loaded
UiIdle ==
    /\ page = FullPage
    /\ disabled = [c \in Controls \ {"contextMenu"} |-> TRUE]
    /\ menuVisible = FALSE
    /\ selectedItem = Null
    /\ itemCache = <<>>
    /\ folder = {}
    /\ fetches = <<>>
    /\ windows = <<>>
    /\ views = <<>>
    /\ lastPost = NoPost
    /\ clicked = NoClick

InitWith(e, root, prof, paths, conns) ==
    /\ InitServer(e, root, prof, paths, conns)
    /\ ListerIdle
    /\ UiIdle

\* three machines (the override serves, the default serves, nothing
\* serves), every request path
Init ==
    \E e \in {Undefined, ConfiguredEnv}, default \in {Plain, NoMkdir} :
        /\ e = Undefined => default = Plain
        /\ InitWith(e, FALSE,
                    ProfilesFor(FALSE, IF default = Plain THEN Plain ELSE NoAccess,
                                default, Plain),
                    RequestPaths, Connections)

\* every machine, one request path
InitBoot ==
    \E e \in {Undefined, ConfiguredEnv}, root \in BOOLEAN,
       configured \in Profiles, default \in Profiles, priv \in {Plain, NoAccess} :
        /\ e = Undefined => configured = Plain
        /\ InitWith(e, root, ProfilesFor(root, configured, default, priv), {FileName},
                    Connections)

Next ==
    \/ Startup
    \/ Listening
    \/ ListenError
    \/ \E c \in DOMAIN req, shape \in Shapes : ApiRead(c, shape)
    \/ \E c \in DOMAIN req : ReadFileCallback(c)
    \/ \E c \in DOMAIN req, shape \in Shapes, content \in Contents : ApiSave(c, shape, content)
    \/ \E c \in DOMAIN req : WriteFileCallback(c)

Spec == Init /\ [][Next]_vars

\* Requests in flight together: three clients, each sending one request for
\* the same path to a server whose candidates are all plain directories.
Clients == {"c1", "c2", "c3"}

ConcProfiles == ProfilesFor(FALSE, Plain, Plain, Plain)

ConcPaths == {FileName, <<"t">>, LockedName}

InitConc ==
    /\ InitWith(Undefined, FALSE, ConcProfiles, ConcPaths, Clients)
    /\ port = ""

NextConc ==
    \/ Startup
    \/ Listening
    \/ \E c \in DOMAIN req : req[c].stage = "idle" /\ ApiRead(c, "string")
    \/ \E c \in DOMAIN req : ReadFileCallback(c)
    \/ \E c \in DOMAIN req, content \in Contents :
            req[c].stage = "idle" /\ ApiSave(c, "string", content)
    \/ \E c \in DOMAIN req : WriteFileOpen(c)
    \/ \E c \in DOMAIN req : WriteFileWrite(c)
    \/ \E c \in DOMAIN req : WriteFileClose(c)

SpecConc == InitConc /\ [][NextConc]_vars

SpecBoot == InitBoot /\ [][Next]_vars

\* The trees listed: every choice of entries among a and a/b, the
\* directory x with the link x/l leading back to x, the link y to the root,
\* a file, a directory that refuses the type check and the cache directory
\* with a child; and a chain of ChainDepth directories.
ChainDepth == 22

NameA == <<"a">>
NameB == <<"b">>
NameX == <<"x">>

Universe ==
    {<<<<NameA>>, Dir>>, <<<<NameA, NameB>>, Dir>>,
     <<<<NameX>>, Dir>>, <<<<NameX, <<"l">>>>, Link(<<NameX>>)>>,
     <<<<<<"y">>>>, Link(<<>>)>>,
     <<<<<<"f">>>>, File>>,
     <<<<<<"d">>>>, DeniedDir>>,
     <<<<CacheDirName>>, Dir>>, <<<<CacheDirName, NameA>>, Dir>>}

TreeOf(S) ==
    [p \in {<<>>} \cup {e[1] : e \in S} |->
        IF p = <<>> THEN Dir ELSE (CHOOSE e \in S : e[1] = p)[2]]

Chain(n) == [p \in {[i \in 1..k |-> NameA] : k \in 0..n} |-> Dir]

Trees ==
    {TreeOf(S) : S \in {U \in SUBSET Universe :
                           \A e \in U : Len(e[1]) > 1 =>
                               \E g \in U : g[1] = Front(e[1])}}
    \cup {Chain(ChainDepth)}

ListerRoots == {<<"/", "r">>, <<"/">>}

StartPaths ==
    {JoinSegments(segs) :
        segs \in {<<>>, <<NameA>>, <<<<"r">>, NameA>>, <<FallbackLabel>>,
                  <<DotDot, NameA>>, <<NameX, DotDot>>, <<NameX>>, <<<<"f">>>>}}

ReqDepths == {-1, 0, 1, 2, DepthCeiling + 1}

HideSets == {{}, {<<"a">>}, {<<"?">>, <<"x", "*">>}}

InitLister ==
    /\ InitServer(Undefined, FALSE, ConcProfiles, {FileName}, Connections)
    /\ port = ""
    /\ tree \in Trees
    /\ lister \in [root : ListerRoots, start : StartPaths,
                   maxDepth : ReqDepths, hide : HideSets]
    /\ listing = [done |-> FALSE, nodes |-> <<>>]
    /\ UiIdle

\* the directory-tree listing endpoint answers the request
DirList ==
    /\ ~listing.done
    /\ listing' = [done |-> TRUE, nodes |-> ListTree(tree, lister)]
    /\ UNCHANGED <<env, isRoot, sys, dirs, files, pc, filesDir, assigned, exitCode,
                   clientPath, req, lastSave, dirFiles, log, port, console>>
    /\ UNCHANGED <<tree, lister>>
    /\ UNCHANGED uiVars

NextLister == DirList

SpecLister == InitLister /\ [][NextLister]_vars

\* The pages: every choice of the toolbar buttons and of the context menu
\* with its entries; index.html decides the disabled attribute each control
\* starts with.
Pages ==
    {pg \in [Controls -> BOOLEAN] :
        ~pg.contextMenu => (~pg.contextEditorButton /\ ~pg.contextPdfButton)}

HtmlStates(pg) ==
    {h \in [Controls \ {"contextMenu"} -> BOOLEAN] :
        \A c \in DOMAIN h : ~pg[c] => ~h[c]}

Item(name, isFile) == [path |-> <<"/">> \o name, name |-> name, isFile |-> isFile]

TextNames == {<<"a", ".", "T", "X", "T">>, <<"b", ".", "x", ".", "j", "s">>}
PdfNames == {<<"a", ".", "P", "d", "f">>}
OtherNames == {<<"a">>, <<"a", ".", "p", "n", "g">>, <<"t", "x", "t">>}
DirNames == {<<"d">>, <<"d", ".", "m", "d">>}

Items ==
    {Item(n, TRUE) : n \in TextNames \cup PdfNames \cup OtherNames}
    \cup {Item(n, FALSE) : n \in DirNames}

Folders ==
    {{Item(<<"a", ".", "T", "X", "T">>, TRUE), Item(<<"a", ".", "P", "d", "f">>, TRUE),
      Item(<<"d">>, FALSE)},
     {Item(<<"b", ".", "x", ".", "j", "s">>, TRUE), Item(<<"a", ".", "p", "n", "g">>, TRUE),
      Item(<<"d", ".", "m", "d">>, FALSE)},
     {Item(<<"a">>, TRUE), Item(<<"t", "x", "t">>, TRUE),
      Item(<<"a", ".", "T", "X", "T">>, TRUE)}}

\* the path attributes a right-click can meet: the path of an item, its
\* name without the leading '/', or none
RawTargets == {it.path : it \in folder} \cup {it.name : it \in folder} \cup {<<>>}

\* the state once the DOMContentLoaded listener has run
PageLoaded(pages, folders) ==
    /\ page \in pages
    /\ \E h \in HtmlStates(page) : disabled = updateToolbarButtons(page, h, Null)
    /\ menuVisible = FALSE
    /\ selectedItem = Null
    /\ itemCache = <<>>
    /\ folder \in folders
    /\ fetches = <<>>
    /\ windows = <<>>
    /\ views = <<>>
    /\ lastPost = NoPost
    /\ clicked = NoClick

ServerParked ==
    /\ InitServer(Undefined, FALSE, ConcProfiles, {FileName}, Connections)
    /\ port = ""

\* every page, every folder: selections, the context menu and the toolbar
InitUi ==
    /\ ServerParked
    /\ ListerIdle
    /\ PageLoaded(Pages, Folders)

NextUi ==
    \/ \E item \in folder : ItemClick(item)
    \/ \E rawPath \in RawTargets : ContextMenuOn(rawPath)
    \/ \E action \in {"open-editor", "preview-pdf", ""} : MenuClick(action)
    \/ \E button \in {"editorButton", "pdfButton"} : ToolbarClick(button)
    \/ Dismiss

SpecUi == InitUi /\ [][NextUi]_vars

\* the complete page, every folder: item clicks and the windows they open
InitClick ==
    /\ ServerParked
    /\ ListerIdle
    /\ PageLoaded({FullPage}, Folders)

NextClick ==
    \/ \E item \in folder : ItemClick(item)
    \/ \E i \in 1..Len(fetches), ok \in BOOLEAN, text \in Docs : ReadAnswered(i, ok, text)

SpecClick == InitClick /\ [][NextClick]_vars

\* the complete page, a folder of two text files: the editor windows
EditorFolder ==
    {Item(<<"a", ".", "T", "X", "T">>, TRUE), Item(<<"b", ".", "x", ".", "j", "s">>, TRUE)}

InitEditors ==
    /\ ServerParked
    /\ ListerIdle
    /\ PageLoaded({FullPage}, {EditorFolder})

NextEditors ==
    \/ \E item \in folder : ItemClick(item)
    \/ \E i \in 1..Len(fetches), ok \in BOOLEAN, text \in Docs : ReadAnswered(i, ok, text)
    \/ \E w \in 1..Len(windows), text \in Docs : Type(w, text)
    \/ \E w \in 1..Len(windows) : SaveClick(w)
    \/ \E w \in 1..Len(windows) : CloseClick(w)

SpecEditors == InitEditors /\ [][NextEditors]_vars

(***************************************************************************)
(* Properties                                                              *)
(***************************************************************************)
\* p is base itself or lies below it, segment by segment
Inside(base, p) ==
    LET b == NormalizeSegments(Segments(base), <<>>, FALSE)
        q == NormalizeSegments(Segments(p), <<>>, FALSE)
    IN Len(b) <= Len(q) /\ SubSeq(q, 1, Len(b)) = b

\* read left to right, the path steps above the directory it starts in
RECURSIVE Climbs(_, _)
Climbs(segs, depth) ==
    IF segs = <<>> THEN FALSE
    ELSE IF Head(segs) = DotDot
    THEN depth = 0 \/ Climbs(Tail(segs), depth - 1)
    ELSE IF Head(segs) = <<>> \/ Head(segs) = Dot
    THEN Climbs(Tail(segs), depth)
    ELSE Climbs(Tail(segs), depth + 1)

ClimbsAbove(p) == Climbs(Segments(p), 0)

Done(c) == req[c].stage = "done"

\* C1: a /api/read or /api/save request reads or writes a file only at the
\* root itself or strictly below it; a location that merely shares the
\* root's string prefix is outside.
C1_ConfinedToRoot ==
    \A c \in DOMAIN req :
        req[c].fsCalls > 0 => Inside(filesDir, req[c].safePath)

\* C2: a request whose path climbs above the root is answered 403 and never
\* reaches the file system under a remapped location.
C2_ClimbIsForbidden ==
    \A c \in DOMAIN req :
        (req[c].stage # "idle" /\ req[c].shape = "string" /\ ClimbsAbove(req[c].path))
            => (Done(c) /\ req[c].status = 403 /\ req[c].fsCalls = 0)

\* C3: a save answered 200 followed, with no save in between, by a read of
\* the same path inside the root is answered 200 with exactly the saved text.
C3_RoundTrip ==
    \A c \in DOMAIN req :
        (Done(c) /\ req[c].kind = "read" /\ req[c].expect
                /\ Inside(filesDir, req[c].safePath))
            => (req[c].status = 200 /\ req[c].msg = "" /\ req[c].text = req[c].expected)

C3_Witness ==
    \E c \in DOMAIN req :
        /\ Done(c) /\ req[c].kind = "read" /\ req[c].expect
        /\ Inside(filesDir, req[c].safePath)
        /\ req[c].expected = <<47>>

\* C4 as stated: a request without a path is answered 400 before any path
\* resolution or file system access, and a request that supplies a path, in
\* whatever shape, is never answered 400.
C4_SuppliedNever400 ==
    \A c \in DOMAIN req :
        Done(c) =>
            /\ req[c].shape = "missing" =>
                  (req[c].status = 400 /\ ~req[c].resolved /\ req[c].fsCalls = 0)
            /\ req[c].shape # "missing" => req[c].status # 400

\* C4 as amended: a request without a path, or with a path that is not a
\* single string, is answered 400 before any path resolution or file system
\* access; a request whose path is a string is never answered 400.
C4_BadRequest ==
    \A c \in DOMAIN req :
        /\ req[c].stage = "fs" => req[c].shape = "string"
        /\ Done(c) =>
            /\ req[c].shape # "string" =>
                  (req[c].status = 400 /\ ~req[c].resolved /\ req[c].fsCalls = 0)
            /\ req[c].shape = "string" => req[c].status # 400

C4_Witness ==
    \E c \in DOMAIN req :
        Done(c) /\ req[c].shape = "missing" /\ req[c].status = 400

\* C5: a request whose path resolves inside the root gets exactly one
\* response after exactly one file system call: 200 with the whole text of
\* the file (read) or the success message (save) when the call succeeds, 500
\* when it fails.
C5_OneResponse ==
    \A c \in DOMAIN req :
        /\ req[c].responses <= 1
        /\ req[c].fsCalls <= 1
        /\ (Done(c) /\ req[c].shape = "string" /\ Inside(filesDir, req[c].safePath)) =>
            /\ req[c].responses = 1
            /\ req[c].fsCalls = 1
            /\ req[c].fsErr # "" => req[c].status = 500
            /\ req[c].fsErr = "" =>
                /\ req[c].status = 200
                /\ req[c].kind = "save" => req[c].msg = "File saved successfully"
                /\ req[c].fresh =>
                    /\ req[c].safePath \in DOMAIN files
                    /\ req[c].kind = "read" =>
                          Utf8Encode(req[c].text) = files[req[c].safePath].bytes
                    /\ req[c].kind = "save" =>
                          files[req[c].safePath].bytes = Utf8Encode(req[c].content)

C5_Witness ==
    \E c \in DOMAIN req :
        /\ Done(c) /\ req[c].shape = "string" /\ Inside(filesDir, req[c].safePath)
        /\ req[c].kind = "save" /\ req[c].fsErr = "ENOENT" /\ req[c].status = 500

configuredDir == configuredDirOf(env)

Started == pc # "start"

\* C6: an override that is set and points at a readable, writable directory
\* whose listing succeeds is the directory the root resolver returns,
\* whatever the privilege level and the state of the default candidates.
C6_OverrideChosen ==
    (/\ Started
     /\ env # Undefined
     /\ sys[configuredDir].exists
     /\ sys[configuredDir].access = "ok"
     /\ sys[configuredDir].readdir = "ok")
        => filesDir = configuredDir

Usable(dir) == ensureDirectoryUsable(dir, dirs, files).ok

\* the candidate order of the documentation: override, privilege-appropriate
\* default, bundled files directory
DocumentedOrder ==
    (IF env # Undefined THEN <<configuredDir>> ELSE <<>>)
        \o <<privDefault(isRoot), DEFAULT_FILES_DIR>>

\* C7: the root resolver returns the first usable candidate of the order
\* override, privilege-appropriate default, bundled files directory, and
\* fails only if none of them is usable.
C7_PriorityOrder ==
    Started =>
        LET usable == SelectSeq(DocumentedOrder, Usable)
        IN IF usable = <<>> THEN pc = "crashed"
           ELSE filesDir = Head(usable)

\* C8: a probed candidate that could be created, is readable and writable
\* and whose own listing succeeds is accepted, also when one of its
\* subdirectories raises EACCES or EPERM.
C8_SubdirSkipped ==
    \A i \in 1..Len(log) :
        (/\ log[i].dir \in DOMAIN dirs
         /\ dirs[log[i].dir] = "ok"
         /\ ReaddirCode(log[i].dir) = "ok")
            => log[i].ok

C10_RootAssignedOnce ==
    [][/\ Started => (filesDir' = filesDir /\ assigned' = assigned)
       /\ assigned' <= 1
       /\ pc' \in {"binding", "listening"} => (assigned' = 1 /\ filesDir' # Undefined)
       /\ \A c \in DOMAIN req' :
            req'[c].resolved => req'[c].safeBase = PathResolve(<<filesDir'>>)]_vars

C10_Witness ==
    \E c \in DOMAIN req :
        /\ Done(c) /\ req[c].resolved /\ req[c].kind = "save" /\ req[c].status = 200
        /\ assigned = 1
        /\ filesDir = DEFAULT_FILES_DIR

\* the file system before any request, and the text a file held then
PriorFiles == FilesOf(ConcProfiles)

PriorTexts(p) ==
    IF p \in DOMAIN PriorFiles THEN {Utf8Decode(PriorFiles[p].bytes)} ELSE {}

\* the texts of the writes that have completed
CompletedTexts ==
    {req[d].content : d \in {e \in DOMAIN req :
        Done(e) /\ req[e].kind = "save" /\ req[e].status = 200}}

InFlight(c) == req[c].stage \in {"fs", "opened", "written"}

\* C11: saves of one path in flight together are not coordinated: none is
\* rejected or blocked because of the others, each is answered 200 when its
\* own write succeeds, once all have completed the file holds the text of
\* the write that completed last, and a read in flight with them returns the
\* text of a completed write or the text the file held before.
C11_LastWriterWins ==
    /\ [](\A c \in DOMAIN req :
            /\ (Done(c) /\ req[c].kind = "save") =>
                    /\ req[c].status \in {200, 500}
                    /\ req[c].fsErr = "" <=> req[c].status = 200
            /\ req[c].stage = "opened" => ENABLED WriteFileWrite(c)
            /\ req[c].stage = "written" => ENABLED WriteFileClose(c))
    /\ []((lastSave.ok /\ \A c \in DOMAIN req : ~InFlight(c)) =>
            \A c \in DOMAIN req :
                (req[c].kind = "save" /\ req[c].status = 200) =>
                    files[req[c].safePath].bytes = Utf8Encode(lastSave.content))
    /\ [][\A c \in DOMAIN req :
            (/\ req[c].kind = "read" /\ req[c].stage = "fs"
             /\ req'[c].stage = "done" /\ req'[c].status = 200)
                => req'[c].text \in PriorTexts(req[c].safePath) \cup CompletedTexts]_vars

LastLine == console[Len(console)]

\* C12: when binding the port fails, the process never reaches the
\* listening state nor reports it, and it terminates with a non-zero exit
\* code after reporting the failure on stderr with the code of the error,
\* so that EADDRINUSE reads differently from any other bind error.
C12_BindFailureIsFatal ==
    port # "" =>
        /\ pc # "listening"
        /\ \A i \in 1..Len(console) : console[i] # ListeningLine
        /\ pc = "exited" =>
            /\ exitCode # 0
            /\ console # <<>>
            /\ LastLine.stream = "stderr"
            /\ LastLine.code = port
            /\ LastLine.text = AppOnError("EADDRINUSE").text => port = "EADDRINUSE"

\* the request of c takes a step
Steps(c) == req'[c].stage # req[c].stage

\* C18: a successful /api/save changes at most the file at the resolved
\* path and leaves every other file as it was; a save answered 400 or 403
\* changes no file, a /api/read request changes no file whatever its
\* outcome, and no file changes otherwise.
C18_FrameEffect ==
    [][/\ \A c \in DOMAIN req :
            /\ (Steps(c) /\ req'[c].kind = "read") => files' = files
            /\ (Steps(c) /\ req'[c].kind = "save" /\ req'[c].status \in {400, 403})
                    => files' = files
            /\ (Steps(c) /\ req'[c].kind = "save" /\ req'[c].status = 200) =>
                    \A p \in (DOMAIN files \cup DOMAIN files') \ {req'[c].safePath} :
                        /\ p \in DOMAIN files
                        /\ p \in DOMAIN files'
                        /\ files'[p] = files[p]
       /\ files' # files =>
            \E c \in DOMAIN req :
                /\ req[c].kind = "save" /\ req[c].stage = "fs"
                /\ req'[c].stage = "done" /\ req'[c].status = 200
       /\ dirs' # dirs => pc = "start"]_vars

\* a save answered 200 has written its text to the file at the resolved path
C18_Witness ==
    \E c \in DOMAIN req :
        /\ Done(c) /\ req[c].kind = "save" /\ req[c].status = 200
        /\ req[c].safePath \in DOMAIN files
        /\ files[req[c].safePath].bytes = <<195, 169, 47>>

\* the path below the root that a node of the listing stands for
RelOf(node) ==
    Tail(SelectSeq(Segments(node.displayPath), LAMBDA g : g # <<>>))

Nodes == listing.nodes

Start == StartOf(lister.root, lister.start)

StartIsDir == Start.ok /\ TypeOf(tree, Start.rel) = "dir"

\* the directory has an unhidden entry that passes the type check as a
\* directory
HasVisibleChildDir(dir) ==
    \E q \in DOMAIN tree :
        /\ q # <<>> /\ Front(q) = dir
        /\ ~Hidden(Last(q), lister.hide)
        /\ TypeOf(tree, q) = "dir"

\* C13: a listing over a tree with a symbolic-link cycle is answered, the
\* directory x of the cycle appears in it exactly once, and every directory
\* is recorded once, whatever the names that lead to it, after its parent.
C13_CycleVisitedOnce ==
    listing.done =>
        /\ \A i, j \in 1..Len(Nodes) :
              i # j => /\ Nodes[i].displayPath # Nodes[j].displayPath
                       /\ Canon(tree, RelOf(Nodes[i])) # Canon(tree, RelOf(Nodes[j]))
        /\ \A i \in 2..Len(Nodes) :
              \E j \in 1..(i - 1) : RelOf(Nodes[j]) = Front(RelOf(Nodes[i]))
        /\ (/\ StartIsDir /\ Start.rel = <<>> /\ ClampDepth(lister.maxDepth) >= 1
            /\ <<NameX, <<"l">>>> \in DOMAIN tree /\ ~Hidden(NameX, lister.hide))
              => Cardinality({i \in 1..Len(Nodes) :
                                 Canon(tree, RelOf(Nodes[i])) = <<NameX>>}) = 1

C13_Witness ==
    /\ listing.done
    /\ <<NameX, <<"l">>>> \in DOMAIN tree
    /\ lister.start = <<>> /\ lister.maxDepth > DepthCeiling /\ lister.hide = {}
    /\ \E i \in 1..Len(Nodes) : RelOf(Nodes[i]) = <<NameX>> /\ Nodes[i].hasChildren

\* C14: a listing with requested depth d has no node deeper below the start
\* than min(max(d, 0), 20); with d = 0 it is exactly the start, whose
\* hasChildren flag tells whether the start has an unhidden, accessible
\* child directory.
C14_DepthBound ==
    listing.done =>
        /\ \A i \in 1..Len(Nodes) :
              /\ Len(RelOf(Nodes[i])) - Len(Start.rel) >= 0
              /\ Len(RelOf(Nodes[i])) - Len(Start.rel) <=
                    (IF lister.maxDepth < 0 THEN 0
                     ELSE IF lister.maxDepth > 20 THEN 20 ELSE lister.maxDepth)
        /\ (StartIsDir /\ lister.maxDepth = 0) =>
              /\ Len(Nodes) = 1
              /\ Nodes[1].displayPath = DisplayPath(lister.root, Start.rel)
              /\ Nodes[1].hasChildren <=> HasVisibleChildDir(Canon(tree, Start.rel))

C14_Witness ==
    /\ listing.done
    /\ lister.maxDepth > DepthCeiling
    /\ Len(Nodes) = DepthCeiling + 1
    /\ Len(RelOf(Nodes[Len(Nodes)])) = DepthCeiling

\* C15: a directory whose name matches a hide pattern is absent from the
\* listing with its whole subtree and does not count towards its parent's
\* hasChildren flag.
C15_HiddenExcluded ==
    listing.done =>
        \A i \in 1..Len(Nodes) :
            /\ \A k \in (Len(Start.rel) + 1)..Len(RelOf(Nodes[i])) :
                  /\ RelOf(Nodes[i])[k] # CacheDirName
                  /\ \A pat \in lister.hide : ~Glob(pat, RelOf(Nodes[i])[k])
            /\ Nodes[i].hasChildren <=>
                  \E q \in DOMAIN tree :
                      /\ q # <<>> /\ Front(q) = Canon(tree, RelOf(Nodes[i]))
                      /\ Last(q) # CacheDirName
                      /\ \A pat \in lister.hide : ~Glob(pat, Last(q))
                      /\ TypeOf(tree, q) = "dir"

C15_Witness ==
    /\ listing.done
    /\ <<NameA, NameB>> \in DOMAIN tree
    /\ <<NameX>> \in DOMAIN tree
    /\ lister.hide = {<<"a">>}
    /\ lister.start = <<>> /\ lister.maxDepth = 2
    /\ Len(Nodes) = 2
    /\ Nodes[1].hasChildren /\ RelOf(Nodes[2]) = <<NameX>>

\* the names with a textual extension and with the pdf extension, spelled out
TextualNames == TextNames \cup {<<"d", ".", "m", "d">>}

IsTextFile(item) == item # Null /\ item.isFile /\ item.name \in TextualNames

IsPdfFile(item) == item # Null /\ item.isFile /\ item.name \in PdfNames

\* C16: onItemClick calls openEditorWindow with the path of the item and
\* returns false for every clicked file with a textual extension; it returns
\* true and opens nothing for every directory and every file whose extension
\* is neither textual nor pdf; editor windows and pending reads exist only
\* for text files of the folder.
C16_ItemClickHook ==
    /\ clicked # NoClick =>
        /\ IsTextFile(clicked.item) =>
              /\ clicked.returned = "false"
              /\ clicked.call = "openEditorWindow"
              /\ clicked.path = clicked.item.path
        /\ (~clicked.item.isFile \/ clicked.item.name \in OtherNames) =>
              /\ clicked.returned = "true"
              /\ clicked.call = ""
    /\ \A i \in 1..Len(fetches) :
          \E it \in folder : IsTextFile(it) /\ it.path = fetches[i]
    /\ \A w \in 1..Len(windows) :
          windows[w].kind = "editor" =>
              \E it \in folder : IsTextFile(it) /\ it.path = windows[w].title

C16_Witness ==
    /\ clicked.item.name = <<"a", ".", "T", "X", "T">>
    /\ clicked.returned = "false"
    /\ \E w \in 1..Len(windows) :
          /\ windows[w].kind = "editor" /\ windows[w].attached
          /\ windows[w].title = clicked.item.path

\* the EditorView made in the content element of window w
ViewIn(w) == CHOOSE v \in 1..Len(views) : views[v].parent = w

Closing(w) == Attached(w) /\ ~windows'[w].attached

\* C17: with any number of editor windows and reads pending, Close in a
\* window destroys the EditorView made for that window and no other (and
\* nothing else destroys one), and Save in a window posts that window's file
\* path with that window's current document.
C17_WindowsKeepTheirEditor ==
    [][/\ \A v \in 1..Len(views) :
            views'[v].destroyed <=>
                (views[v].destroyed \/ Closing(views[v].parent))
       /\ \A v \in (Len(views) + 1)..Len(views') : ~views'[v].destroyed
       /\ lastPost' # lastPost =>
            /\ Attached(lastPost'.window)
            /\ lastPost'.path = windows[lastPost'.window].title
            /\ lastPost'.content = views[ViewIn(lastPost'.window)].doc]_vars

C17_Witness ==
    /\ Len(windows) = 2
    /\ ~windows[1].attached /\ windows[2].attached
    /\ views[1].destroyed /\ ~views[2].destroyed
    /\ lastPost.window = 2
    /\ lastPost.content # views[1].doc
    /\ Len(fetches) = 1

\* C19: once an item is selected, by a click or a right-click, every
\* open-editor control on the page is enabled exactly when the selected item
\* is a file with a textual extension and every PDF-preview control exactly
\* when it is a file with the pdf extension, whichever controls the page has.
C19_ControlsFollowSelection ==
    selectedItem # Null =>
        /\ page.editorButton =>
              (~disabled.editorButton <=> IsTextFile(selectedItem))
        /\ page.contextEditorButton =>
              (~disabled.contextEditorButton <=> IsTextFile(selectedItem))
        /\ page.pdfButton =>
              (~disabled.pdfButton <=> IsPdfFile(selectedItem))
        /\ page.contextPdfButton =>
              (~disabled.contextPdfButton <=> IsPdfFile(selectedItem))

\* C20: an editor window is opened only for a selected file with a textual
\* extension and a PDF window only for a selected file with the pdf
\* extension, and the context menu is shown only while the selected item is
\* a file one of the two actions accepts.
C20_OpensOnlyWhatFits ==
    /\ [](menuVisible => (IsTextFile(selectedItem) \/ IsPdfFile(selectedItem)))
    /\ [][/\ fetches' # fetches =>
               /\ IsTextFile(selectedItem')
               /\ fetches'[Len(fetches')] = selectedItem'.path
          /\ windows' # windows =>
               /\ IsPdfFile(selectedItem')
               /\ windows'[Len(windows')].title = selectedItem'.path]_vars

====
